---------------------------- MODULE Spec2Model ----------------------------
(***************************************************************************)
(* Verification model of verdandi's clamped-bar EKF example and of the     *)
(* Seldon numeric substrate it is built on:                                *)
(*   - the driver loop of example/clamped_bar/test_ekf.cpp (SpecDriver),   *)
(*   - the packed-Hermitian and triangular matrix classes of               *)
(*     seldon/matrix (SpecMatrix),                                         *)
(*   - the symmetric QMR solver of seldon/computation (SpecQmr).           *)
(* The matrix classes are modelled as built with SELDON_CHECK_MEMORY and   *)
(* SELDON_CHECK_IO, which test_ekf.cpp's debug level switches on.          *)
(***************************************************************************)
EXTENDS Integers, Sequences, FiniteSets, TLC

VARIABLES
    \* ---- driver (test_ekf.cpp) ----
    pc,         \* position of main
    argc,       \* number of command-line arguments, program name included
    cfgValid,   \* whether the configuration file can be read by Initialize
    horizon,    \* the model's time horizon, read from the configuration
    step,       \* the driver's time index
    trace,      \* history: driver operations main has called, in order
    exitCode,   \* value returned by main, -1 while running or after a catch
    report,     \* failure reports raised by the driver: <<[time, code]>>
    \* ---- matrix object (Matrix_HermPacked / Matrix_Triangular) ----
    mat,        \* the object's fields: storage, m, n, data, me, alive
    other,      \* a second object of the same class, where two are in play
    heap,       \* the allocator's blocks and the row-pointer tables
    user,       \* blocks the calling code holds a pointer to
    err,        \* exception leaving the last operation, "none" if it returned
    op,         \* the last operation: its name, m_ before it, whether its
                \* argument i was that m_, whether an allocation in it failed
    lost,       \* kinds of the blocks that became unreachable while allocated
    file,       \* the stream that Write wrote last: row count, column count, scalars
    msg,        \* the IOError leaving the last operation: function, comment
                \* and the file name in the comment
    ub,         \* flags of undefined behaviour seen so far
    \* ---- iterative solver (QmrSym.cxx) ----
    qmr         \* a call of QmrSym: its position, its arguments and locals

driverVars == <<pc, argc, cfgValid, horizon, step, trace, exitCode, report>>
matrixVars == <<mat, other, heap, user, err, op, lost, file, msg, ub>>
solverVars == <<qmr>>
vars == <<pc, argc, cfgValid, horizon, step, trace, exitCode, report,
          mat, other, heap, user, err, op, lost, file, msg, ub, qmr>>

(***************************************************************************)
(* Bounds of the model.                                                    *)
(***************************************************************************)
MaxHorizon == 3
MaxArgc == 3

Min(a, b) == IF a < b THEN a ELSE b

Last(s) == s[Len(s)]

(***************************************************************************)
(*        MATRIX STORAGE  (Matrix_HermPacked.cxx, Matrix_Triangular.cxx)   *)
(***************************************************************************)
MaxDim == 3
MaxBuf == 3

\* Content of a scalar that has been allocated and never written.
Uninit == -1 - MaxDim * MaxDim

Dims == 0..MaxDim
\* The column argument j of the calls: a value that differs from every
\* smaller i.
Js == {MaxDim}
BufIds == 1..MaxBuf

HermStorages == {"ColHermPacked", "RowHermPacked"}
TriStorages == {"ColUpTriang", "ColLoTriang", "RowUpTriang", "RowLoTriang"}
Storages == HermStorages \cup TriStorages
IsHerm(st) == st \in HermStorages
IsRowMajor(st) == st \in {"RowHermPacked", "RowUpTriang", "RowLoTriang"}
IsUpper(st) == st \in {"ColHermPacked", "RowHermPacked", "ColUpTriang", "RowUpTriang"}

\* Number of scalars of the buffer of an i x i matrix.
HermSizeDense(i) == i * i
HermSize(i) == (i * (i + 1)) \div 2
TriSize(i) == i * i
BufferSize(st, i) == IF IsHerm(st) THEN HermSize(i) ELSE TriSize(i)

\* GetDataSize(): the number of scalars the object believes it stores.
GetDataSize(M) == IF IsHerm(M.storage) THEN HermSize(M.m) ELSE M.m * M.n

(***************************************************************************)
(* The heap.  A block is free or live; a live block holds `cells'.  A data *)
(* block holds scalars; a row-pointer table (kind "me") holds, for each    *)
(* row, the offset of the pointer it stores from the start of block `tgt'. *)
(* Pointer 0 is NULL.                                                      *)
(***************************************************************************)
FreeBlock == [st |-> "free", kind |-> "none", cells |-> <<>>, tgt |-> 0]
LiveBlock(kind, cells, tgt) ==
    [st |-> "live", kind |-> kind, cells |-> cells, tgt |-> tgt]
EmptyHeap == [b \in BufIds |-> FreeBlock]

FreeIds(H) == {b \in BufIds : H[b].st = "free"}
LiveIds(H) == {b \in BufIds : H[b].st = "live"}
NewId(H) == CHOOSE b \in FreeIds(H) : \A c \in FreeIds(H) : b <= c

UninitCells(n) == [k \in 1..n |-> Uninit]
ZeroCells(n) == [k \in 1..n |-> 0]

\* Outcomes of the allocation calls.  A request for zero scalars cannot
\* fail; it yields NULL or a pointer to an empty block.
AllocOutcomes(n) == IF n > 0 THEN {"ok", "null", "throw"} ELSE {"ok", "null"}
CallocOutcomes(n) == {"ok", "null"}
ReallocOutcomes(n) ==
    IF n > 0 THEN {"ok", "null", "throw_kept", "throw_freed"} ELSE {"ok", "null"}
CReallocOutcomes(n) == {"ok", "null"}
AllocFails(n, o) == n > 0 /\ o # "ok"

\* The outcomes when no allocation fails: a request for n scalars is served,
\* one for zero scalars yields NULL or a pointer to an empty block.
Served(n) == IF n > 0 THEN {"ok"} ELSE {"ok", "null"}

AllocResult(p, H, threw, bad) == [ptr |-> p, heap |-> H, threw |-> threw, ub |-> bad]

\* free(p) / Allocator::deallocate(p, n)
Release(H, p) ==
    IF p = 0 THEN [heap |-> H, ub |-> {}]
    ELSE IF H[p].st = "live"
           THEN [heap |-> [H EXCEPT ![p] = FreeBlock], ub |-> {}]
           ELSE [heap |-> H, ub |-> {"double free"}]

\* Allocator::allocate(n) and calloc(n, sizeof(pointer)).
Allocate(H, n, o, kind) ==
    CASE o = "ok" ->
           LET b == NewId(H)
               c == IF kind = "me" THEN ZeroCells(n) ELSE UninitCells(n)
           IN AllocResult(b, [H EXCEPT ![b] = LiveBlock(kind, c, 0)], FALSE, {})
      [] o = "null" -> AllocResult(0, H, FALSE, {})
      [] OTHER -> AllocResult(0, H, TRUE, {})

\* realloc(p, n) and Allocator::reallocate(p, n): on success the old block is
\* gone and the new one holds n cells; a row-pointer table keeps its first
\* min(old, n) entries, the scalars of a data block are indeterminate
\* ("Depending on your allocator, data may be lost").  A failing realloc
\* returns NULL and leaves the old block allocated; a request for zero
\* scalars releases the block.  An allocator that throws has either kept the
\* old block or released it before allocating.
Reallocate_(H, p, n, o, kind) ==
    LET old == IF p = 0 THEN <<>> ELSE H[p].cells
        oldtgt == IF p = 0 THEN 0 ELSE H[p].tgt
        dangling == p # 0 /\ H[p].st # "live"
        bad == IF dangling THEN {"realloc of a released block"} ELSE {}
        H1 == IF p = 0 \/ dangling THEN H ELSE [H EXCEPT ![p] = FreeBlock]
        c == [k \in 1..n |-> IF kind # "me" THEN Uninit
                              ELSE IF k <= Len(old) THEN old[k] ELSE 0]
    IN CASE o = "ok" ->
              LET b == NewId(H1)
              IN AllocResult(b, [H1 EXCEPT ![b] = LiveBlock(kind, c, oldtgt)],
                             FALSE, bad)
         [] o = "null" -> AllocResult(0, IF n = 0 THEN H1 ELSE H, FALSE, bad)
         [] o = "throw_freed" -> AllocResult(0, H1, TRUE, bad)
         [] OTHER -> AllocResult(0, H, TRUE, bad)

(***************************************************************************)
(* The matrix object.                                                      *)
(***************************************************************************)
Matrix(st, i, j, d, t, alive) ==
    [storage |-> st, m |-> i, n |-> j, data |-> d, me |-> t, alive |-> alive]

\* What an operation leaves behind: the object, the heap, the exception that
\* left it ("none" when it returned) and the undefined behaviour it ran into.
Ret(M, H, e, bad) == [mat |-> M, heap |-> H, err |-> e, ub |-> bad]

\* IOError(function, comment), with the file name the comment quotes, if any;
\* no IOError.
IOErr(function, comment) ==
    [function |-> function, comment |-> comment, path |-> ""]
\* IOError(function, string("Unable to open file \"") + FileName + "\".")
OpenErr(function, FileName) ==
    [function |-> function, comment |-> "Unable to open file", path |-> FileName]
NoMsg == IOErr("", "")
\* The result R of an input/output function, with the IOError it threw.
WithMsg(R, m) ==
    [mat |-> R.mat, heap |-> R.heap, err |-> R.err, ub |-> R.ub, msg |-> m]
MsgOf(R) == IF "msg" \in DOMAIN R THEN R.msg ELSE NoMsg

\* A binary stream: the two integers of its header and its scalars.
Stream(m, n, payload) == [m |-> m, n |-> n, payload |-> payload]
\* No stream has been written yet.
NoFile == Stream(-1, -1, <<>>)

\* this->m_ = i; this->n_ = i;   (and Matrix_Base<T, Allocator>(i, i))
SetDimsFromJ(M, i, j) == [M EXCEPT !.m = i, !.n = j]
SetDims(M, i, j) == [M EXCEPT !.m = i, !.n = i]

\* m_ = 0; n_ = 0; data_ = NULL; (me_ = NULL;)
EmptiedKeepDims(M) == [M EXCEPT !.data = 0, !.me = 0]
Emptied(M) == [M EXCEPT !.m = 0, !.n = 0, !.data = 0, !.me = 0]

\* for (k = 0; k < i; k++, ptr += lgth) me_[k] = ptr;
RowPointers(i, lgth) == [k \in 1..i |-> (k - 1) * lgth]
SetRowPointers(H, t, d, i) ==
    IF t = 0 \/ i = 0 THEN H
    ELSE [H EXCEPT ![t] = LiveBlock("me", RowPointers(i, i), d)]

(***************************************************************************)
(* Matrix_HermPacked                                                       *)
(***************************************************************************)

\* Matrix_HermPacked(int i, int j)
HermConstruct(st, H, i, j, o) ==
    LET M0 == SetDims(Matrix(st, 0, 0, 0, 0, TRUE), i, j)
        r == Allocate(H, HermSize(i), o, "data")
    IN IF r.threw \/ r.ptr = 0
         THEN Ret(Emptied(M0), r.heap, "none", {})
         ELSE Ret([M0 EXCEPT !.data = r.ptr], r.heap, "none", {})

\* Matrix_HermPacked::Clear()
HermClear(M, H) ==
    LET r == Release(H, M.data)
    IN Ret(Emptied(M), r.heap, "none", r.ub)

\* if (i != this->m_) in Reallocate and Resize
SameSizeNever(M, i) == FALSE
SameSize(M, i) == i = M.m

\* Matrix_HermPacked::Reallocate(int i, int j)
HermReallocate(M, H, i, j, o) ==
    IF SameSize(M, i) THEN Ret(M, H, "none", {})
    ELSE LET M1 == SetDims(M, i, j)
             r == Reallocate_(H, M1.data, HermSize(i), o, "data")
         IN IF r.threw \/ r.ptr = 0
              THEN Ret(Emptied(M1), r.heap, "NoMemory", r.ub)
              ELSE Ret([M1 EXCEPT !.data = r.ptr], r.heap, "none", r.ub)

\* Matrix_HermPacked::SetData(int i, int j, pointer data)
HermSetData(M, H, i, j, d) ==
    LET c == HermClear(M, H)
    IN Ret([SetDims(c.mat, i, j) EXCEPT !.data = d], c.heap, "none", c.ub)

\* Matrix_HermPacked::Nullify()
HermNullifyReleasing(M, H) == HermClear(M, H)
HermNullify(M, H) == Ret(Emptied(M), H, "none", {})

(***************************************************************************)
(* Matrix_Triangular                                                       *)
(***************************************************************************)

\* Matrix_Triangular(int i, int j)
TriConstruct(st, H, i, j, o1, o2) ==
    LET M0 == SetDims(Matrix(st, 0, 0, 0, 0, TRUE), i, j)
        r1 == Allocate(H, i, o1, "me")
    IN IF r1.ptr = 0 /\ i # 0
         THEN Ret([Emptied(M0) EXCEPT !.alive = FALSE], r1.heap, "NoMemory", {})
         ELSE LET M1 == IF r1.ptr = 0 THEN Emptied(M0)
                                      ELSE [M0 EXCEPT !.me = r1.ptr]
                  r2 == Allocate(r1.heap, TriSize(i), o2, "data")
                  f == Release(r2.heap, M1.me)
              IN IF r2.threw \/ r2.ptr = 0
                   THEN Ret([Emptied(M1) EXCEPT !.alive = (i = 0)], f.heap,
                            IF i # 0 THEN "NoMemory" ELSE "none", f.ub)
                   ELSE Ret([M1 EXCEPT !.data = r2.ptr],
                            SetRowPointers(r2.heap, M1.me, r2.ptr, i),
                            "none", {})

\* Matrix_Triangular::Clear()
TriClear(M, H) ==
    LET r == Release(H, M.data)
        f == Release(r.heap, M.me)
    IN Ret(Emptied(M), f.heap, "none", r.ub \cup f.ub)

\* Matrix_Triangular::Reallocate(int i, int j)
TriReallocate(M, H, i, j, o1, o2) ==
    IF SameSize(M, i) THEN Ret(M, H, "none", {})
    ELSE LET M0 == SetDims(M, i, j)
             r1 == Reallocate_(H, M0.me, i, o1, "me")
         IN IF r1.ptr = 0 /\ i # 0
              THEN Ret(Emptied(M0), r1.heap, "NoMemory", r1.ub)
              ELSE LET M1 == IF r1.ptr = 0 THEN Emptied(M0)
                                           ELSE [M0 EXCEPT !.me = r1.ptr]
                       r2 == Reallocate_(r1.heap, M1.data, TriSize(i), o2, "data")
                       f == Release(r2.heap, M1.me)
                   IN IF r2.threw \/ r2.ptr = 0
                        THEN Ret(Emptied(M1), f.heap,
                                 IF i # 0 THEN "NoMemory" ELSE "none",
                                 r1.ub \cup r2.ub \cup f.ub)
                        ELSE Ret([M1 EXCEPT !.data = r2.ptr],
                                 SetRowPointers(r2.heap, M1.me, r2.ptr, i),
                                 "none", r1.ub \cup r2.ub)

\* Matrix_Triangular::SetData(int i, int j, pointer data)
TriSetData(M, H, i, j, d, o1) ==
    LET c == TriClear(M, H)
        M0 == SetDims(c.mat, i, j)
        r1 == Allocate(c.heap, i, o1, "me")
    IN IF r1.ptr = 0
         THEN Ret(Emptied(M0), r1.heap, "none", c.ub)
         ELSE Ret([M0 EXCEPT !.me = r1.ptr, !.data = d],
                  SetRowPointers(r1.heap, r1.ptr, d, i), "none", c.ub)

\* Matrix_Triangular::Nullify()
TriNullify(M, H) ==
    LET f == Release(H, M.me)
    IN Ret(Emptied(M), f.heap, "none", f.ub)

(***************************************************************************)
(* Resize, Fill, Read and element access                                   *)
(***************************************************************************)
Cells(H, p) == IF p = 0 THEN <<>> ELSE H[p].cells

\* Vector xold(GetDataSize()); for (k...) xold(k) = this->data_[k];
SaveOld(M, H) ==
    LET c == Cells(H, M.data)
        nold == GetDataSize(M)
    IN [xold |-> [k \in 1..nold |-> IF k <= Len(c) THEN c[k] ELSE Uninit],
        ub |-> IF nold > Len(c) THEN {"read out of bounds"} ELSE {}]

\* Runs the assignments data_[dst] = xold(src) of `pairs' in order; an index
\* outside either array is undefined behaviour.
RECURSIVE CopyFrom(_, _, _, _)
CopyFrom(cells, xold, pairs, p) ==
    IF p > Len(pairs) THEN [cells |-> cells, ub |-> {}]
    ELSE LET dst == pairs[p][1]
             src == pairs[p][2]
             okr == src >= 0 /\ src < Len(xold)
             okw == dst >= 0 /\ dst < Len(cells)
             nxt == CopyFrom(IF okr /\ okw
                               THEN [cells EXCEPT ![dst + 1] = xold[src + 1]]
                               ELSE cells,
                             xold, pairs, p + 1)
         IN [cells |-> nxt.cells,
             ub |-> nxt.ub
                    \cup (IF okr THEN {} ELSE {"read out of bounds"})
                    \cup (IF okw THEN {} ELSE {"write out of bounds"})]

\* Stores the outcome of a copy loop into the data block of R.mat.
WithCopied(R, xold, pairs, bad) ==
    IF Len(pairs) = 0 THEN [R EXCEPT !.ub = @ \cup bad]
    ELSE IF R.mat.data = 0
      THEN [R EXCEPT !.ub = @ \cup bad \cup {"null dereference"}]
      ELSE LET c == CopyFrom(R.heap[R.mat.data].cells, xold, pairs, 1)
           IN [R EXCEPT !.heap[R.mat.data].cells = c.cells,
                        !.ub = @ \cup bad \cup c.ub]

\* this->data_[k*i + l] = xold(k*iold + l);
TriResizeSrcNewStride(k, l, iold, i) == k * i + l
TriResizeSrc(k, l, iold, i) == k * iold + l
TriResizeDst(k, l, iold, i) == k * i + l

\* for (k < imin) for (l < imin) ...
TriResizePairs(iold, i) ==
    LET imin == Min(iold, i)
    IN [p \in 1..(imin * imin) |->
          LET k == (p - 1) \div imin
              l == (p - 1) % imin
          IN <<TriResizeDst(k, l, iold, i), TriResizeSrc(k, l, iold, i)>>]

\* Matrix_Triangular::Resize(int i, int j)
TriResize(M, H, i, j, o1, o2) ==
    IF SameSize(M, i) THEN Ret(M, H, "none", {})
    ELSE LET iold == M.m
             s == SaveOld(M, H)
             R == TriReallocate(M, H, i, i, o1, o2)
         IN IF R.err # "none" THEN [R EXCEPT !.ub = @ \cup s.ub]
            ELSE WithCopied(R, s.xold, TriResizePairs(iold, i), s.ub)

\* Matrix<T, Prop, ColHermPacked, Allocator>::Resize(int i, int j)
ColHermResize(M, H, i, j, o) ==
    LET s == SaveOld(M, H)
        nold == GetDataSize(M)
        R == HermReallocate(M, H, i, j, o)
        nmin == Min(nold, GetDataSize(R.mat))
    IN IF R.err # "none" THEN [R EXCEPT !.ub = @ \cup s.ub]
       ELSE WithCopied(R, s.xold, [k \in 1..nmin |-> <<k - 1, k - 1>>], s.ub)

\* A copy of the leading scalars as they lie in memory, with no new offsets.
RowHermResizePairsRaw(k, n, nold, imin, i, iold) ==
    [q \in 1..Min(HermSize(i), HermSize(iold)) |-> <<q - 1, q - 1>>]

\* for (k < imin) { for (l = k; l < imin; l++) data_[n+l-k] = xold(nold+l-k);
\*                  n += i - k; nold += iold - k; }
RECURSIVE RowHermResizePairs(_, _, _, _, _, _)
RowHermResizePairs(k, n, nold, imin, i, iold) ==
    IF k >= imin THEN <<>>
    ELSE [q \in 1..(imin - k) |-> <<n + (q - 1), nold + (q - 1)>>]
         \o RowHermResizePairs(k + 1, n + i - k, nold + iold - k, imin, i, iold)

\* Matrix<T, Prop, RowHermPacked, Allocator>::Resize(int i, int j)
RowHermResize(M, H, i, j, o) ==
    LET s == SaveOld(M, H)
        iold == M.m
        R == HermReallocate(M, H, i, j, o)
    IN IF R.err # "none" THEN [R EXCEPT !.ub = @ \cup s.ub]
       ELSE WithCopied(R, s.xold,
                       RowHermResizePairs(0, 0, 0, Min(iold, i), i, iold), s.ub)

\* Fill(): for (i < GetDataSize()) data_[i] = i;
FillIndex(M, H) ==
    LET n == GetDataSize(M)
    IN IF n = 0 THEN Ret(M, H, "none", {})
       ELSE IF M.data = 0 THEN Ret(M, H, "none", {"null dereference"})
       ELSE LET c == H[M.data].cells
            IN Ret(M,
                   [H EXCEPT ![M.data].cells =
                       [k \in 1..Len(c) |-> IF k <= n THEN k - 1 ELSE c[k]]],
                   "none",
                   IF n > Len(c) THEN {"write out of bounds"} ELSE {})

\* The k-th scalar of the payload of the stream that Read reads.
PayloadVal(k) == MaxDim * MaxDim + k
Payload(avail) == [k \in 1..avail |-> PayloadVal(k - 1)]

\* FileStream.read(data_, count * sizeof(value_type)) with the scalars of
\* `payload' left in the stream.
ReadPayload(R, count, payload) ==
    LET avail == Len(payload)
        got == Min(count, avail)
        e == IF avail < count THEN "IOError" ELSE "none"
    IN IF got = 0 THEN [R EXCEPT !.err = e]
       ELSE IF R.mat.data = 0
         THEN [R EXCEPT !.err = e, !.ub = @ \cup {"null dereference"}]
         ELSE LET c == R.heap[R.mat.data].cells
              IN [R EXCEPT
                    !.heap[R.mat.data].cells =
                        [k \in 1..Len(c) |-> IF k <= got THEN payload[k]
                                                         ELSE c[k]],
                    !.err = e,
                    !.ub = @ \cup (IF got > Len(c) THEN {"write out of bounds"}
                                                   ELSE {})]

\* Matrix_HermPacked::Read(istream&)
HermRead(M, H, good, new_m, new_n, payload, o) ==
    IF ~good
      THEN WithMsg(Ret(M, H, "IOError", {}),
                   IOErr("Matrix_HermPacked::Read(ifstream& FileStream)",
                         "Stream is not ready."))
    ELSE LET R == HermReallocate(M, H, new_m, new_n, o)
             P == ReadPayload(R, GetDataSize(R.mat), payload)
         IN IF R.err # "none" THEN R
            ELSE IF P.err = "none" THEN P
            ELSE WithMsg(P, IOErr("Matrix_HermPacked::Read(ifstream& FileStream)",
                                  "Input operation failed."))

\* Matrix_Triangular::Read(istream&)
TriRead(M, H, good, new_m, new_n, payload, o1, o2) ==
    IF ~good
      THEN WithMsg(Ret(M, H, "IOError", {}),
                   IOErr("Matrix_Triangular::Read(ifstream& FileStream)",
                         "Stream is not ready."))
    ELSE LET R == TriReallocate(M, H, new_m, new_n, o1, o2)
             P == ReadPayload(R, new_m * new_n, payload)
         IN IF R.err # "none" THEN R
            ELSE IF P.err = "none" THEN P
            ELSE WithMsg(P, IOErr("Matrix_Triangular::Read(ifstream& FileStream)",
                                  "Input operation failed."))

\* FileStream.write(data_, count * sizeof(value_type)): the scalars written,
\* in the order of the memory, when the device takes `cap' of them.
WritePayloadReversed(c, count, cap) ==
    [k \in 1..Min(count, cap) |-> c[count + 1 - k]]
WritePayload(c, count, cap) == [k \in 1..Min(count, cap) |-> c[k]]

\* Write(ostream&) of a matrix that stores `count' scalars; `fn' is the name
\* the function gives itself in its exceptions.
WriteStream(M, H, F, good, cap, count, fn) ==
    LET c == Cells(H, M.data)
        n == Min(count, Len(c))
        bad == IF count > Len(c) THEN {"read out of bounds"} ELSE {}
    IN IF ~good
         THEN [file |-> F, err |-> "IOError", ub |-> {},
               msg |-> IOErr(fn, "Stream is not ready.")]
         ELSE [file |-> Stream(M.m, M.n, WritePayload(c, n, cap)),
               err |-> IF cap < count THEN "IOError" ELSE "none",
               ub |-> bad,
               msg |-> IF cap < count THEN IOErr(fn, "Output operation failed.")
                                      ELSE NoMsg]

\* Matrix_HermPacked::Write(ostream&) const
HermWrite(M, H, F, good, cap) ==
    WriteStream(M, H, F, good, cap, GetDataSize(M),
                "Matrix_HermPacked::Write(ofstream& FileStream)")

\* Matrix_Triangular::Write(ostream&) const
TriWrite(M, H, F, good, cap) ==
    WriteStream(M, H, F, good, cap, M.m * M.n,
                "Matrix_Triangular::Write(ofstream& FileStream)")

\* Offset in the data buffer of the stored entry (r, c) of a triangular
\* matrix: me_[GetFirst(r, c)][GetSecond(r, c)].
TriStored(st, r, c) == IF IsUpper(st) THEN r <= c ELSE r >= c
TriAt(M, H, r, c) ==
    LET f == IF IsRowMajor(M.storage) THEN r ELSE c
        g == IF IsRowMajor(M.storage) THEN c ELSE r
        t == H[M.me]
    IN H[t.tgt].cells[t.cells[f + 1] + g + 1]
\* operator()(r, c) of a triangular matrix: zero outside the stored triangle.
TriGet(M, H, r, c) ==
    IF TriStored(M.storage, r, c) THEN TriAt(M, H, r, c) ELSE 0

\* Offset in the packed buffer of entry (r, c), r <= c, of an n x n packed
\* Hermitian matrix: columns of the upper triangle one after the other
\* (ColHermPacked), or its rows one after the other (RowHermPacked).
HermOffset(st, n, r, c) ==
    IF IsRowMajor(st) THEN r * n - (r * (r + 1)) \div 2 + c
                      ELSE (c * (c + 1)) \div 2 + r
\* Position in the buffer (from 1) of the scalar that holds entry (r, c) of
\* a packed matrix: its own when r <= c, that of (c, r) otherwise.
HermCellNoMirror(M, r, c) == HermOffset(M.storage, M.n, r, c) + 1
HermCell(M, r, c) ==
    IF r <= c THEN HermOffset(M.storage, M.n, r, c) + 1
              ELSE HermOffset(M.storage, M.n, c, r) + 1
\* operator()(r, c) of a packed matrix of real scalars.
HermAt(M, H, r, c) == H[M.data].cells[HermCell(M, r, c)]
\* Set(r, c, x) of a packed matrix of real scalars.
HermSet(M, H, r, c, x) ==
    Ret(M, [H EXCEPT ![M.data].cells[HermCell(M, r, c)] = x], "none", {})

(***************************************************************************)
(* Text files.  A text is the sequence of its lines, a line the sequence   *)
(* of the scalars written on it.                                           *)
(***************************************************************************)
\* The p-th scalar of line l of the text that ReadText reads.
TextVal(l, p) == PayloadVal((l - 1) * MaxDim + p - 1)
TextOf(lens) == [l \in 1..Len(lens) |-> [p \in 1..lens[l] |-> TextVal(l, p)]]

\* Vector::ReadText(stream): every scalar left in the stream, line ends
\* being white space like any other.
RECURSIVE Flatten(_)
Flatten(lines) ==
    IF lines = <<>> THEN <<>> ELSE Head(lines) \o Flatten(Tail(lines))

\* Val(i, j): position in the data buffer (from 1) of the scalar that the
\* address arithmetic designates, 0 when it is outside the allocated blocks.
ValCell(M, H, i, j) ==
    IF M.data = 0 \/ H[M.data].st # "live" THEN 0
    ELSE IF IsHerm(M.storage)
      THEN LET p == HermOffset(M.storage, M.n, i, j) + 1
           IN IF p >= 1 /\ p <= Len(H[M.data].cells) THEN p ELSE 0
      ELSE LET f == IF IsRowMajor(M.storage) THEN i ELSE j
               g == IF IsRowMajor(M.storage) THEN j ELSE i
           IN IF M.me = 0 \/ f + 1 > Len(H[M.me].cells) THEN 0
              ELSE LET p == H[M.me].cells[f + 1] + g + 1
                   IN IF p >= 1 /\ p <= Len(H[M.data].cells) THEN p ELSE 0

\* Runs the assignments Val(i, j) = x of `todo', each <<i, j, x>>, in order.
RECURSIVE StoreAll(_, _, _)
StoreAll(R, todo, k) ==
    IF k > Len(todo) THEN R
    ELSE LET p == ValCell(R.mat, R.heap, todo[k][1], todo[k][2])
         IN IF p = 0
              THEN StoreAll([R EXCEPT !.ub = @ \cup {"write out of bounds"}],
                            todo, k + 1)
              ELSE StoreAll([R EXCEPT !.heap[R.mat.data].cells[p] = todo[k][3]],
                            todo, k + 1)

\* Value of nb when the loop of ReadText starts row i: earlier rows advanced
\* it by one for each skipped and each stored entry.
RECURSIVE RowStart(_, _, _)
RowStart(upper, i, n) ==
    IF i <= 1 THEN 0
    ELSE RowStart(upper, i - 1, n)
         + (IF upper THEN (i - 1) + (IF n > i - 1 THEN n - (i - 1) ELSE 0)
                     ELSE i + (IF n > i THEN n - i ELSE 0))

\* Columns j of row i that the filling loops of ReadText assign, and the
\* index in first_row (row 0) or other_rows of the scalar they assign.
TextCols(upper, i, n) ==
    IF upper THEN i..(n - 1) ELSE 0..i
TextSrcNoSkip(upper, i, j, n) ==
    IF i = 0 THEN j ELSE RowStart(upper, i, n) + j - (IF upper THEN i ELSE 0)
TextSrc(upper, i, j, n) ==
    IF i = 0 THEN j ELSE RowStart(upper, i, n) + j

\* The assignments Val(i, j) = first_row(j) and Val(i, j) = other_rows(nb++)
\* of ReadText, in the order of the loops.
TextAssignments(upper, m, n, first, rest) ==
    LET cell(i, j) == LET v == IF i = 0 THEN first ELSE rest
                          q == TextSrc(upper, i, j, n)
                      IN IF q < Len(v) THEN v[q + 1] ELSE Uninit
        RECURSIVE InOrder(_)
        InOrder(S) ==
            IF S = {} THEN <<>>
            ELSE LET a == CHOOSE x \in S :
                            \A y \in S : \/ x[1] < y[1]
                                         \/ (x[1] = y[1] /\ x[2] <= y[2])
                 IN <<<<a[1], a[2], cell(a[1], a[2])>>>> \o InOrder(S \ {a})
    IN InOrder({x \in (0..(m - 1)) \X (0..(m + n)) :
                   x[2] \in TextCols(upper, x[1], n)})

\* The filling loops read other_rows past its end.
TextOverrun(upper, m, n, rest) ==
    \E i \in 1..(m - 1) :
        \E j \in TextCols(upper, i, n) :
            TextSrc(upper, i, j, n) >= Len(rest)

\* ReadText(istream&) of both classes, on a stream that holds `lines'.
ReadTextStream(M, H, good, lines, o1, o2) ==
    LET c == IF IsHerm(M.storage) THEN HermClear(M, H) ELSE TriClear(M, H)
        fn == "Matrix_Pointers::ReadText(ifstream& FileStream)"
    IN IF ~good
         THEN WithMsg([c EXCEPT !.err = "IOError"],
                      IOErr(fn, "Stream is not ready."))
       ELSE IF lines = <<>> THEN c
       ELSE LET first == Head(lines)
                rest == Flatten(Tail(lines))
                n == Len(first)
            IN IF n = 0 THEN [c EXCEPT !.ub = @ \cup {"division by zero"}]
               ELSE LET m == 1 + Len(rest) \div n
                        upper == IsUpper(M.storage)
                    IN IF Len(rest) # (m - 1) * n
                         THEN WithMsg([c EXCEPT !.err = "IOError"],
                                IOErr(fn, "The file should contain same number of columns."))
                         ELSE LET R == IF IsHerm(M.storage)
                                         THEN HermReallocate(c.mat, c.heap, m, n, o1)
                                         ELSE TriReallocate(c.mat, c.heap, m, n, o1, o2)
                                  A == TextAssignments(upper, m, n, first, rest)
                                  bad == IF TextOverrun(upper, m, n, rest)
                                           THEN {"read out of bounds"} ELSE {}
                              IN IF R.err # "none" THEN [R EXCEPT !.ub = @ \cup c.ub]
                                 ELSE StoreAll([R EXCEPT !.ub = @ \cup c.ub \cup bad],
                                               A, 1)

\* ReadText(string FileName) of both classes.
ReadTextNamed(M, H, FileName, opened, lines, o1, o2) ==
    IF ~opened
      THEN WithMsg(Ret(M, H, "IOError", {}),
                   OpenErr("Matrix_Pointers::ReadText(string FileName)", FileName))
      ELSE ReadTextStream(M, H, TRUE, lines, o1, o2)

\* Read(string FileName); `ready' is what the test after open() finds:
\* good() for a packed matrix, is_open() for a triangular one.
ReadNamed(M, H, FileName, ready, new_m, new_n, payload, o1, o2) ==
    IF ~ready
      THEN WithMsg(Ret(M, H, "IOError", {}),
                   OpenErr(IF IsHerm(M.storage)
                             THEN "Matrix_HermPacked::Read(string FileName)"
                             ELSE "Matrix_Triangular::Read(string FileName)",
                           FileName))
      ELSE IF IsHerm(M.storage)
             THEN HermRead(M, H, TRUE, new_m, new_n, payload, o1)
             ELSE TriRead(M, H, TRUE, new_m, new_n, payload, o1, o2)

\* Write(string FileName) const
WriteNamed(M, H, F, FileName, opened, cap) ==
    IF ~opened
      THEN [file |-> F, err |-> "IOError", ub |-> {},
            msg |-> OpenErr(IF IsHerm(M.storage)
                              THEN "Matrix_HermPacked::Write(string FileName)"
                              ELSE "Matrix_Triangular::Write(string FileName)",
                            FileName)]
      ELSE IF IsHerm(M.storage) THEN HermWrite(M, H, F, TRUE, cap)
                                ELSE TriWrite(M, H, F, TRUE, cap)

\* operator()(i, j) of either class, as WriteText prints it.
Entry(M, H, i, j) ==
    IF ValCell(M, H, IF IsHerm(M.storage) /\ i > j THEN j ELSE i,
                     IF IsHerm(M.storage) /\ i > j THEN i ELSE j) = 0
      THEN Uninit
    ELSE IF IsHerm(M.storage) THEN HermAt(M, H, i, j)
                              ELSE TriGet(M, H, i, j)

\* A text file that holds `lines'.
Text(lines) == [m |-> -1, n |-> -1, payload |-> <<>>, lines |-> lines]

\* WriteText(ostream&) const; the device takes `cap' lines.
WriteTextStream(M, H, F, good, cap) ==
    LET fn == IF IsHerm(M.storage)
                THEN "Matrix_HermPacked::WriteText(ofstream& FileStream)"
                ELSE "Matrix_Triangular::WriteText(ofstream& FileStream)"
        stored(i, j) == IsHerm(M.storage) \/ TriStored(M.storage, i, j)
        bad == IF \E i \in 0..(M.m - 1), j \in 0..(M.n - 1) :
                     /\ stored(i, j)
                     /\ ValCell(M, H, IF IsHerm(M.storage) /\ i > j THEN j ELSE i,
                                      IF IsHerm(M.storage) /\ i > j THEN i ELSE j) = 0
                 THEN {"read out of bounds"} ELSE {}
    IN IF ~good
         THEN [file |-> F, err |-> "IOError", ub |-> {},
               msg |-> IOErr(fn, "Stream is not ready.")]
         ELSE [file |-> Text([i \in 1..Min(M.m, cap) |->
                                [j \in 1..M.n |-> Entry(M, H, i - 1, j - 1)]]),
               err |-> IF cap < M.m THEN "IOError" ELSE "none",
               ub |-> bad,
               msg |-> IF cap < M.m THEN IOErr(fn, "Output operation failed.")
                                    ELSE NoMsg]

\* WriteText(string FileName) const
WriteTextNamed(M, H, F, FileName, opened, cap) ==
    IF ~opened
      THEN [file |-> F, err |-> "IOError", ub |-> {},
            msg |-> OpenErr(IF IsHerm(M.storage)
                              THEN "Matrix_HermPacked::WriteText(string FileName)"
                              ELSE "Matrix_Triangular::WriteText(string FileName)",
                            FileName)]
      ELSE WriteTextStream(M, H, F, TRUE, cap)

(***************************************************************************)
(* The matrix object's life: construction, then any sequence of calls.     *)
(***************************************************************************)
NoOp == [name |-> "none", same |-> FALSE, mold |-> 0, failed |-> FALSE]

IdleMatrix ==
    /\ mat = Matrix("RowHermPacked", 0, 0, 0, 0, FALSE)
    /\ other = Matrix("RowHermPacked", 0, 0, 0, 0, FALSE)
    /\ heap = EmptyHeap
    /\ user = {}
    /\ err = "none"
    /\ op = NoOp
    /\ lost = {}
    /\ file = NoFile
    /\ msg = NoMsg
    /\ ub = {}

\* No call of the solver is under way.
NoRun == [pc |-> "idle"]
IdleSolver == qmr = NoRun

IdleDriver ==
    /\ pc = "idle"
    /\ argc = 0
    /\ cfgValid = FALSE
    /\ horizon = 0
    /\ step = 0
    /\ trace = <<>>
    /\ exitCode = -1
    /\ report = <<>>

InitMatrix ==
    /\ mat \in {Matrix(st, 0, 0, 0, 0, FALSE) : st \in Storages}
    /\ other = Matrix(mat.storage, 0, 0, 0, 0, FALSE)
    /\ heap = EmptyHeap
    /\ user = {}
    /\ err = "none"
    /\ op = NoOp
    /\ lost = {}
    /\ file = NoFile
    /\ msg = NoMsg
    /\ ub = {}
    /\ IdleDriver
    /\ IdleSolver

\* There is room on the model's heap for the blocks a call may allocate: one
\* for each pointer of the object that is NULL, and one more.
Needs(M) == (IF M.data = 0 THEN 1 ELSE 0)
            + (IF ~IsHerm(M.storage) /\ M.me = 0 THEN 1 ELSE 0)
Room == Cardinality(FreeIds(heap)) >= Needs(mat) + 1

\* Blocks that are allocated and that neither the object nor the caller
\* points to: they can no longer be released.
Unreachable(H, M, held) ==
    {b \in LiveIds(H) : b \notin {M.data, M.me} /\ b \notin held}

\* The model follows the blocks the object points to.  A block it let go of
\* is the caller's from then on when the caller holds it, and is remembered
\* in `lost' when nobody does.
Tracked(H, M) ==
    [b \in BufIds |-> IF b \in {M.data, M.me} THEN H[b] ELSE FreeBlock]

\* The state after the call `call' that left R behind, the caller holding
\* `held'.
DoCall(call, Result, held) ==
    \E R \in {Result} :
        /\ mat' = R.mat
        /\ heap' = Tracked(R.heap, R.mat)
        /\ lost' = lost \cup {R.heap[b].kind : b \in Unreachable(R.heap, R.mat, held)}
        /\ err' = R.err
        /\ ub' = ub \cup R.ub
        /\ op' = call
        /\ user' = held \cap LiveIds(R.heap) \cap {R.mat.data}
        /\ msg' = MsgOf(R)
        /\ file' = file
        /\ other' = other
        /\ UNCHANGED <<driverVars, solverVars>>

Do(name, same, failed, Result, held) ==
    DoCall([name |-> name, same |-> same, mold |-> mat.m, failed |-> failed],
           Result, held)

AllocFailsHerm(i, o) == AllocFails(HermSize(i), o)
AllocFailsTri(i, o1, o2) == AllocFails(i, o1) \/ AllocFails(TriSize(i), o2)
\* Outcomes of the second allocation of a triangular matrix; it is not
\* reached when the first one failed.
TriSecond(i, o1) ==
    IF AllocFails(i, o1) THEN {"ok"} ELSE ReallocOutcomes(TriSize(i))

Construct ==
    /\ op.name = "none"
    /\ \E i \in Dims, j \in Js :
         IF IsHerm(mat.storage)
           THEN \E o \in AllocOutcomes(HermSize(i)) :
                  Do("Construct", FALSE, AllocFailsHerm(i, o),
                     HermConstruct(mat.storage, heap, i, j, o), user)
           ELSE \E o1 \in CallocOutcomes(i) :
                \E o2 \in IF AllocFails(i, o1) THEN {"ok"}
                                                ELSE AllocOutcomes(TriSize(i)) :
                  Do("Construct", FALSE, AllocFailsTri(i, o1, o2),
                     TriConstruct(mat.storage, heap, i, j, o1, o2), user)

Clear ==
    /\ mat.alive /\ ub = {} /\ lost = {}
    /\ Do("Clear", FALSE, FALSE,
          IF IsHerm(mat.storage) THEN HermClear(mat, heap)
                                 ELSE TriClear(mat, heap),
          user)

Reallocate ==
    /\ mat.alive /\ ub = {} /\ lost = {}
    /\ \E i \in Dims, j \in Js :
         /\ Room \/ i = mat.m
         /\ IF IsHerm(mat.storage)
              THEN \E o \in ReallocOutcomes(HermSize(i)) :
                     Do("Reallocate", i = mat.m, i # mat.m /\ AllocFailsHerm(i, o),
                        HermReallocate(mat, heap, i, j, o), user)
              ELSE \E o1 \in CReallocOutcomes(i) : \E o2 \in TriSecond(i, o1) :
                     Do("Reallocate", i = mat.m, i # mat.m /\ AllocFailsTri(i, o1, o2),
                        TriReallocate(mat, heap, i, j, o1, o2), user)

\* The caller hands over a buffer of its own, of the size of an i x i matrix.
SetData ==
    /\ mat.alive /\ ub = {} /\ lost = {}
    /\ Room
    /\ \E i \in Dims, j \in Js :
         LET d == NewId(heap)
             n == BufferSize(mat.storage, i)
             H1 == [heap EXCEPT ![d] =
                       LiveBlock("data", [k \in 1..n |-> k - 1], 0)]
         IN IF IsHerm(mat.storage)
              THEN Do("SetData", FALSE, FALSE,
                      HermSetData(mat, H1, i, j, d), user \cup {d})
              ELSE \E o1 \in CallocOutcomes(i) :
                     Do("SetData", FALSE, AllocFails(i, o1),
                        TriSetData(mat, H1, i, j, d, o1), user \cup {d})

\* The caller keeps the pointer to the buffer that Nullify lets go of.
Nullify ==
    /\ mat.alive /\ ub = {} /\ lost = {}
    /\ Do("Nullify", FALSE, FALSE,
          IF IsHerm(mat.storage) THEN HermNullify(mat, heap)
                                 ELSE TriNullify(mat, heap),
          user \cup ({mat.data} \ {0}))

Resize ==
    /\ mat.alive /\ ub = {} /\ lost = {}
    /\ \E i \in Dims, j \in Js :
         /\ Room \/ i = mat.m
         /\ IF IsHerm(mat.storage)
              THEN \E o \in ReallocOutcomes(HermSize(i)) :
                     Do("Resize", i = mat.m, i # mat.m /\ AllocFailsHerm(i, o),
                        IF mat.storage = "ColHermPacked"
                          THEN ColHermResize(mat, heap, i, j, o)
                          ELSE RowHermResize(mat, heap, i, j, o),
                        user)
              ELSE \E o1 \in CReallocOutcomes(i) : \E o2 \in TriSecond(i, o1) :
                     Do("Resize", i = mat.m, i # mat.m /\ AllocFailsTri(i, o1, o2),
                        TriResize(mat, heap, i, j, o1, o2), user)

Fill ==
    /\ mat.alive /\ ub = {} /\ lost = {}
    /\ Do("Fill", FALSE, FALSE, FillIndex(mat, heap), user)

\* Scalars left in the stream after the two integers of the header.
Avails == {0, MaxDim * MaxDim}

Read ==
    /\ mat.alive /\ ub = {} /\ lost = {}
    /\ \E good \in BOOLEAN, new_m \in Dims, new_n \in Dims, avail \in Avails :
         /\ Room \/ new_m = mat.m
         /\ new_n \in {new_m} \cup Js
         /\ good \/ (new_m = 0 /\ new_n = 0 /\ avail = 0)
         /\ IF IsHerm(mat.storage)
              THEN \E o \in ReallocOutcomes(HermSize(new_m)) :
                     Do("Read", new_m = mat.m,
                        good /\ new_m # mat.m /\ AllocFailsHerm(new_m, o),
                        HermRead(mat, heap, good, new_m, new_n, Payload(avail), o),
                        user)
              ELSE \E o1 \in CReallocOutcomes(new_m) : \E o2 \in TriSecond(new_m, o1) :
                     Do("Read", new_m = mat.m,
                        good /\ new_m # mat.m /\ AllocFailsTri(new_m, o1, o2),
                        TriRead(mat, heap, good, new_m, new_n, Payload(avail),
                                o1, o2),
                        user)

\* Scalars the output device takes before it fails.
Caps == {0, MaxDim * MaxDim}

\* Write(ostream&): the matrix is written to a stream, which `file' keeps.
WriteFile ==
    /\ mat.alive /\ ub = {} /\ lost = {}
    /\ \E good \in BOOLEAN, cap \in Caps :
         \E W \in {IF IsHerm(mat.storage)
                     THEN HermWrite(mat, heap, file, good, cap)
                     ELSE TriWrite(mat, heap, file, good, cap)} :
            /\ file' = W.file
            /\ err' = W.err
            /\ msg' = W.msg
            /\ ub' = ub \cup W.ub
            /\ op' = [name |-> "Write", same |-> FALSE, mold |-> mat.m,
                      failed |-> FALSE]
            /\ UNCHANGED <<mat, other, heap, user, lost>>
            /\ UNCHANGED <<driverVars, solverVars>>

\* Read(istream&) on the stream that Write left.
ReadFile ==
    /\ mat.alive /\ ub = {} /\ lost = {}
    /\ file # NoFile
    /\ Room \/ file.m = mat.m
    /\ IF IsHerm(mat.storage)
         THEN \E o \in ReallocOutcomes(HermSize(file.m)) :
                Do("ReadFile", file.m = mat.m,
                   file.m # mat.m /\ AllocFailsHerm(file.m, o),
                   HermRead(mat, heap, TRUE, file.m, file.n, file.payload, o),
                   user)
         ELSE \E o1 \in CReallocOutcomes(file.m) : \E o2 \in TriSecond(file.m, o1) :
                Do("ReadFile", file.m = mat.m,
                   file.m # mat.m /\ AllocFailsTri(file.m, o1, o2),
                   TriRead(mat, heap, TRUE, file.m, file.n, file.payload, o1, o2),
                   user)

NextMatrix ==
    \/ Construct
    \/ Clear
    \/ Reallocate
    \/ SetData
    \/ Nullify
    \/ Resize
    \/ Fill
    \/ Read

SpecMatrix == InitMatrix /\ [][NextMatrix]_vars

\* Value that Set stores; no other operation of the model produces it.
SetVal == 3 * MaxDim * MaxDim

\* Set(r, c, x) on a packed matrix.
SetEntry ==
    /\ mat.alive /\ ub = {} /\ lost = {}
    /\ IsHerm(mat.storage)
    /\ mat.data # 0
    /\ \E r, c \in 0..(mat.m - 1) :
         Do("Set", FALSE, FALSE, HermSet(mat, heap, r, c, SetVal), user)

\* A packed matrix that is constructed, filled and assigned entry by entry.
NextAccess ==
    \/ Construct
    \/ Fill
    \/ SetEntry

SpecAccess == InitMatrix /\ [][NextAccess]_vars

(***************************************************************************)
(* Two objects of one class and the calling code that hands buffers to     *)
(* them with SetData and takes them back with Nullify.                     *)
(***************************************************************************)
Obj(w) == IF w = 1 THEN mat ELSE other

\* The state after a call on object w that left R behind.  The blocks that
\* either object or the caller points to are kept as they are.
OwnDo(w, name, Result, held) ==
    \E R \in {Result} :
        LET M1 == IF w = 1 THEN R.mat ELSE mat
            M2 == IF w = 2 THEN R.mat ELSE other
            gone == {b \in LiveIds(R.heap) :
                        b \notin {M1.data, M1.me, M2.data, M2.me} \cup held}
        IN /\ mat' = M1
           /\ other' = M2
           /\ heap' = [b \in BufIds |->
                          IF b \in gone THEN FreeBlock ELSE R.heap[b]]
           /\ lost' = lost \cup {R.heap[b].kind : b \in gone}
           /\ user' = held \cap LiveIds(R.heap)
           /\ err' = R.err
           /\ ub' = ub \cup R.ub
           /\ msg' = MsgOf(R)
           /\ file' = file
           /\ op' = [name |-> name, same |-> FALSE, mold |-> 0,
                     failed |-> FALSE, who |-> w]
           /\ UNCHANGED <<driverVars, solverVars>>

\* The pointers the caller still holds once object w has released or moved
\* its buffer.
Kept(w) == user \ {Obj(w).data}

OwnRoom(w) == Cardinality(FreeIds(heap)) >= Needs(Obj(w)) + 1

\* Sizes of the matrices and buffers of this scenario: none and the largest.
OwnDims == {0, MaxDim}

OwnConstruct(w) ==
    /\ ~Obj(w).alive /\ ub = {} /\ lost = {}
    /\ w = 2 => mat.alive
    /\ OwnRoom(w)
    /\ \E i \in OwnDims, j \in Js :
         IF IsHerm(mat.storage)
           THEN \E o \in Served(HermSize(i)) :
                  OwnDo(w, "Construct",
                        HermConstruct(mat.storage, heap, i, j, o), user)
           ELSE \E o1 \in Served(i), o2 \in Served(TriSize(i)) :
                  OwnDo(w, "Construct",
                        TriConstruct(mat.storage, heap, i, j, o1, o2), user)

\* SetData(i, j, data) with a buffer the caller has just allocated, or with
\* one of i x i scalars it holds a pointer to, other than the buffer of the
\* object itself (which SetData releases before it takes `data').
OwnSetData(w) ==
    /\ Obj(w).alive /\ ub = {} /\ lost = {}
    /\ OwnRoom(w)
    /\ \E i \in OwnDims, j \in Js :
         LET n == BufferSize(mat.storage, i)
             fresh == NewId(heap)
         IN \E d \in {fresh} \cup {b \in user \ {Obj(w).data} :
                                    Len(heap[b].cells) = n} :
              LET H1 == IF d = fresh
                          THEN [heap EXCEPT ![d] =
                                  LiveBlock("data", [k \in 1..n |-> k - 1], 0)]
                          ELSE heap
              IN IF IsHerm(mat.storage)
                   THEN OwnDo(w, "SetData",
                              HermSetData(Obj(w), H1, i, j, d),
                              Kept(w) \cup {d})
                   ELSE \E o1 \in Served(i) :
                          OwnDo(w, "SetData",
                                TriSetData(Obj(w), H1, i, j, d, o1),
                                Kept(w) \cup {d})

\* Nullify(); the caller keeps the pointer to the buffer.
OwnNullify(w) ==
    /\ Obj(w).alive /\ ub = {} /\ lost = {}
    /\ OwnDo(w, "Nullify",
             IF IsHerm(mat.storage) THEN HermNullify(Obj(w), heap)
                                    ELSE TriNullify(Obj(w), heap),
             user \cup ({Obj(w).data} \ {0}))

OwnClear(w) ==
    /\ Obj(w).alive /\ ub = {} /\ lost = {}
    /\ OwnDo(w, "Clear",
             IF IsHerm(mat.storage) THEN HermClear(Obj(w), heap)
                                    ELSE TriClear(Obj(w), heap),
             Kept(w))

OwnReallocate(w) ==
    /\ Obj(w).alive /\ ub = {} /\ lost = {}
    /\ \E i \in OwnDims, j \in Js :
         /\ OwnRoom(w) \/ i = Obj(w).m
         /\ IF IsHerm(mat.storage)
              THEN \E o \in Served(HermSize(i)) :
                     OwnDo(w, "Reallocate",
                           HermReallocate(Obj(w), heap, i, j, o),
                           IF i = Obj(w).m THEN user ELSE Kept(w))
              ELSE \E o1 \in Served(i), o2 \in Served(TriSize(i)) :
                     OwnDo(w, "Reallocate",
                           TriReallocate(Obj(w), heap, i, j, o1, o2),
                           IF i = Obj(w).m THEN user ELSE Kept(w))

NextOwner ==
    \E w \in {1, 2} :
        \/ OwnConstruct(w)
        \/ OwnSetData(w)
        \/ OwnNullify(w)
        \/ OwnClear(w)
        \/ OwnReallocate(w)

SpecOwner == InitMatrix /\ [][NextOwner]_vars

\* One object and the calling code that hands buffers to it and takes them
\* back.
NextHandOver ==
    \/ OwnConstruct(1)
    \/ OwnSetData(1)
    \/ OwnNullify(1)
    \/ OwnClear(1)
    \/ OwnReallocate(1)

SpecHandOver == InitMatrix /\ [][NextHandOver]_vars

\* A matrix that is constructed, filled, resized, written and read back.
NextIO ==
    \/ Construct
    \/ Fill
    \/ Reallocate
    \/ WriteFile
    \/ ReadFile

SpecIO == InitMatrix /\ [][NextIO]_vars

(***************************************************************************)
(* Files given by name, and text files.                                    *)
(***************************************************************************)
Paths == {"a.dat", "b.dat"}

\* Texts of at most MaxDim lines of at most MaxDim scalars each, given by the
\* number of scalars of each line.
TextLens == UNION {[1..k -> 0..MaxDim] : k \in 0..MaxDim}

\* A call of an input/output function: the file name it was given ("" for a
\* stream) and, for ReadText, the lengths of the lines of the text.
FileCall(name, path, lens) == [name |-> name, path |-> path, lens |-> lens]

\* The texts a stream can hold: none when it could not be opened or is not
\* ready, since nothing is read from it then.
TextsOf(ready) == IF ready THEN TextLens ELSE {<<>>}

\* The state after an output function that left W behind.
Written(call, W) ==
    /\ file' = W.file
    /\ err' = W.err
    /\ msg' = W.msg
    /\ ub' = ub \cup W.ub
    /\ op' = call
    /\ UNCHANGED <<mat, other, heap, user, lost>>
    /\ UNCHANGED <<driverVars, solverVars>>

\* The scenario ends with the first call that writes a file: the functions
\* below act while no file has been written.  No allocation fails in it.

\* ReadText(string FileName)
ReadTextName ==
    /\ mat.alive /\ ub = {} /\ lost = {}
    /\ file = NoFile
    /\ Room
    /\ \E path \in Paths, opened \in BOOLEAN :
         \E lens \in TextsOf(opened) :
            DoCall(FileCall("ReadText", path, lens),
                   ReadTextNamed(mat, heap, path, opened, TextOf(lens), "ok", "ok"),
                   user)

\* ReadText(istream& FileStream)
ReadTextIn ==
    /\ mat.alive /\ ub = {} /\ lost = {}
    /\ file = NoFile
    /\ Room
    /\ \E good \in BOOLEAN :
         \E lens \in TextsOf(good) :
            DoCall(FileCall("ReadText", "", lens),
                   ReadTextStream(mat, heap, good, TextOf(lens), "ok", "ok"),
                   user)

\* Read(string FileName)
ReadName ==
    /\ mat.alive /\ ub = {} /\ lost = {}
    /\ file = NoFile
    /\ \E path \in Paths, ready \in BOOLEAN, new_m \in Dims, avail \in Avails :
         /\ Room \/ new_m = mat.m
         /\ ready \/ (new_m = 0 /\ avail = 0)
         /\ \E o1 \in Served(new_m), o2 \in Served(TriSize(new_m)) :
               DoCall(FileCall("Read", path, <<>>),
                      ReadNamed(mat, heap, path, ready, new_m, new_m,
                                Payload(avail), o1, o2),
                      user)

\* Write(string FileName) const
WriteName ==
    /\ mat.alive /\ ub = {} /\ lost = {}
    /\ file = NoFile
    /\ \E path \in Paths, opened \in BOOLEAN, cap \in Caps :
         Written(FileCall("Write", path, <<>>),
                 WriteNamed(mat, heap, file, path, opened, cap))

\* WriteText(string FileName) const
WriteTextName ==
    /\ mat.alive /\ ub = {} /\ lost = {}
    /\ file = NoFile
    /\ \E path \in Paths, opened \in BOOLEAN, cap \in {0, MaxDim} :
         Written(FileCall("WriteText", path, <<>>),
                 WriteTextNamed(mat, heap, file, path, opened, cap))

NextText ==
    \/ Construct
    \/ Fill
    \/ ReadTextName
    \/ ReadTextIn
    \/ ReadName
    \/ WriteName
    \/ WriteTextName

SpecText == InitMatrix /\ [][NextText]_vars

\* ReadText(string FileName) on the file that WriteText(FileName) has just
\* written in full.
ReadTextBack ==
    /\ mat.alive /\ ub = {} /\ lost = {}
    /\ op.name = "WriteText" /\ err = "none"
    /\ Room
    /\ DoCall(FileCall("ReadTextBack", op.path, <<>>),
              ReadTextNamed(mat, heap, op.path, TRUE, file.lines, "ok", "ok"),
              user)

\* A matrix that is constructed, filled, written as text and read back.
NextRoundTrip ==
    \/ Construct
    \/ Fill
    \/ WriteTextName
    \/ ReadTextBack

SpecRoundTrip == InitMatrix /\ [][NextRoundTrip]_vars

(***************************************************************************)
(*                         DRIVER  (test_ekf.cpp)                          *)
(***************************************************************************)

\* Status codes the iterative solver hands back: 0 for convergence and the
\* codes of iter.Fail in QmrSym.
SolverStatus == {0, 1, 3, 4, 5, 6}

\* if (argc != 2): the usage error.
UsageErrorTooFew(a) == a < 2
UsageError(a) == a # 2

\* while (!driver.HasFinished())
LoopContinuesInverted(finished) == finished
LoopContinues(finished) == ~finished

\* The statement that follows each call of main's loop body.
StepSuccessorSkipAnalyze(p) ==
    CASE p = "InitializeStep" -> "Forward"
      [] p = "Forward"        -> "FinalizeStep"
      [] p = "Analyze"        -> "FinalizeStep"
      [] p = "FinalizeStep"   -> "HasFinished"
StepSuccessor(p) ==
    CASE p = "InitializeStep" -> "Forward"
      [] p = "Forward"        -> "Analyze"
      [] p = "Analyze"        -> "FinalizeStep"
      [] p = "FinalizeStep"   -> "HasFinished"

\* VERDANDI_TRY ... VERDANDI_END: an exception thrown by a call leaves the
\* body of main for the handler; otherwise control goes on to `next'.
PropagateSwallow(threw, next) == next
Propagate(threw, next) == IF threw THEN "caught" ELSE next

\* The driver's operations, as section 4.3 of the specification states them.
DriverInitializeThrows == ~cfgValid
DriverHasFinished == step >= horizon
DriverInitializeStep == step + 1
DriverAnalyzeThrows(status) == status # 0
DriverAnalyzeReport(status) == [time |-> step, code |-> status]

InitDriver ==
    /\ pc = "argcheck"
    /\ argc \in 0..MaxArgc
    /\ cfgValid \in BOOLEAN
    /\ horizon \in 0..MaxHorizon
    /\ step = 0
    /\ trace = <<>>
    /\ exitCode = -1
    /\ report = <<>>
    /\ IdleMatrix
    /\ IdleSolver

MainArgCheck ==
    /\ pc = "argcheck"
    /\ IF UsageError(argc)
         THEN pc' = "return1" /\ exitCode' = 1
         ELSE pc' = "Initialize" /\ exitCode' = exitCode
    /\ UNCHANGED <<argc, cfgValid, horizon, step, trace, report>>
    /\ UNCHANGED <<matrixVars, solverVars>>

MainInitialize ==
    /\ pc = "Initialize"
    /\ trace' = Append(trace, "Initialize")
    /\ pc' = Propagate(DriverInitializeThrows, "HasFinished")
    /\ UNCHANGED <<argc, cfgValid, horizon, step, exitCode, report>>
    /\ UNCHANGED <<matrixVars, solverVars>>

MainLoopTest ==
    /\ pc = "HasFinished"
    /\ pc' = IF LoopContinues(DriverHasFinished) THEN "InitializeStep"
                                                 ELSE "Finalize"
    /\ UNCHANGED <<argc, cfgValid, horizon, step, trace, exitCode, report>>
    /\ UNCHANGED <<matrixVars, solverVars>>

MainInitializeStep ==
    /\ pc = "InitializeStep"
    /\ step <= MaxHorizon
    /\ trace' = Append(trace, "InitializeStep")
    /\ step' = DriverInitializeStep
    /\ pc' = StepSuccessor("InitializeStep")
    /\ UNCHANGED <<argc, cfgValid, horizon, exitCode, report>>
    /\ UNCHANGED <<matrixVars, solverVars>>

MainForward ==
    /\ pc = "Forward"
    /\ trace' = Append(trace, "Forward")
    /\ pc' = StepSuccessor("Forward")
    /\ UNCHANGED <<argc, cfgValid, horizon, step, exitCode, report>>
    /\ UNCHANGED <<matrixVars, solverVars>>

MainAnalyze ==
    /\ pc = "Analyze"
    /\ trace' = Append(trace, "Analyze")
    /\ \E status \in SolverStatus :
         /\ report' = IF DriverAnalyzeThrows(status)
                        THEN Append(report, DriverAnalyzeReport(status))
                        ELSE report
         /\ pc' = Propagate(DriverAnalyzeThrows(status),
                            StepSuccessor("Analyze"))
    /\ UNCHANGED <<argc, cfgValid, horizon, step, exitCode>>
    /\ UNCHANGED <<matrixVars, solverVars>>

MainFinalizeStep ==
    /\ pc = "FinalizeStep"
    /\ trace' = Append(trace, "FinalizeStep")
    /\ pc' = StepSuccessor("FinalizeStep")
    /\ UNCHANGED <<argc, cfgValid, horizon, step, exitCode, report>>
    /\ UNCHANGED <<matrixVars, solverVars>>

MainFinalize ==
    /\ pc = "Finalize"
    /\ trace' = Append(trace, "Finalize")
    /\ pc' = "return0"
    /\ exitCode' = 0
    /\ UNCHANGED <<argc, cfgValid, horizon, step, report>>
    /\ UNCHANGED <<matrixVars, solverVars>>

NextDriver ==
    \/ MainArgCheck
    \/ MainInitialize
    \/ MainLoopTest
    \/ MainInitializeStep
    \/ MainForward
    \/ MainAnalyze
    \/ MainFinalizeStep
    \/ MainFinalize

SpecDriver == InitDriver /\ [][NextDriver]_vars

\* main runs to its end: no step of it waits for anything.
SpecDriverFair == SpecDriver /\ WF_vars(NextDriver)

(***************************************************************************)
(*                  ITERATIVE SOLVER  (QmrSym.cxx)                         *)
(* The arithmetic is not followed.  A scalar is known as the tests of the  *)
(* code see it, zero or not; a vector is known by the updates applied to   *)
(* it; what a norm, a dot product or a quotient yields is the arithmetic's *)
(* choice.                                                                 *)
(***************************************************************************)
\* Largest iteration cap of the model.
MaxIter == 3

Scalars == {"zero", "nonzero"}

\* The Iteration object, as sections 3 and 4.2 of the specification state
\* it: the cap, the counter, the error code and the outcome of the last
\* convergence test.
InitFailure == -1
IterationLimit == -2
Iteration(max_iter) ==
    [max_iter |-> max_iter, nb_iter |-> 0, error_code |-> 0, name |-> "",
     small |-> FALSE]
IterInit(it, ok) ==
    IF ok THEN [it EXCEPT !.nb_iter = 0]
          ELSE [it EXCEPT !.error_code = InitFailure, !.name = "Init"]
IterSetNumberIteration(it, nb) == [it EXCEPT !.nb_iter = nb]
IterTested(it, small) == [it EXCEPT !.small = small]
IterFinished(it) == it.small \/ it.nb_iter >= it.max_iter
IterFirst(it) == it.nb_iter = 0
IterFail(it, code, name) == [it EXCEPT !.error_code = code, !.name = name]
IterAdvance(it) == [it EXCEPT !.nb_iter = @ + 1]
IterErrorCode(it) ==
    IF it.error_code # 0 THEN it.error_code
    ELSE IF it.small THEN 0
    ELSE IterationLimit

\* iter.Fail(code, "Qmr breakdown #k") for each zero pivot.
QmrFailure(pivot) ==
    CASE pivot = "rho"   -> [code |-> 1, name |-> "Qmr breakdown #1"]
      [] pivot = "delta" -> [code |-> 3, name |-> "Qmr breakdown #2"]
      [] pivot = "ep"    -> [code |-> 4, name |-> "Qmr breakdown #3"]
      [] pivot = "beta"  -> [code |-> 5, name |-> "Qmr breakdown #4"]
      [] pivot = "gamma" -> [code |-> 6, name |-> "Qmr breakdown #5"]

\* The scalars the iteration divides by.
Pivots == {"rho", "delta", "ep", "beta", "gamma"}

\* if (pivot == zero): the test that guards a pivot.
IsZeroNever(value) == FALSE
IsZero(value) == value = "zero"

\* A quotient whose divisor has the value `by': the divisors that were zero.
Divided(q, name, by) ==
    [q EXCEPT !.div = @ \cup (IF by = "zero" THEN {name} ELSE {})]

\* Add(one, d, x); Add(-one, s, r);  in iteration k
QmrApply(q, k) == [q EXCEPT !.x = Append(@, k), !.r = Append(@, k)]

\* A break that leaves the loop after the iterate was touched.
QmrBreakAfterUpdate(q, pivot) ==
    [QmrApply(q, q.iter.nb_iter + 1) EXCEPT
        !.iter = IterFail(@, QmrFailure(pivot).code, QmrFailure(pivot).name),
        !.ended = "breakdown",
        !.pivot = pivot,
        !.pc = "return"]
\* if (pivot == zero) { iter.Fail(...); break; }
QmrBreak(q, pivot) ==
    [q EXCEPT !.iter = IterFail(@, QmrFailure(pivot).code, QmrFailure(pivot).name),
              !.ended = "breakdown",
              !.pivot = pivot,
              !.pc = "return"]

\* QmrSym(A, x, b, M, iter) is entered with a system of N unknowns.
QmrCall(N, guessNull, max_iter) ==
    [pc |-> "enter", N |-> N, guessNull |-> guessNull,
     iter |-> Iteration(max_iter),
     rho |-> "zero", delta |-> "zero", ep |-> "zero", beta |-> "zero",
     theta |-> "zero", gamma |-> "nonzero", eta |-> "nonzero",
     rho_1 |-> "zero", gamma_1 |-> "nonzero",
     x |-> <<0>>, r |-> <<>>,
     trace |-> <<>>, div |-> {}, ended |-> "", pivot |-> "", status |-> 0]

InitQmr ==
    /\ qmr \in {QmrCall(N, g, c) :
                   N \in 0..MaxDim, g \in BOOLEAN, c \in 0..MaxIter}
    /\ IdleDriver
    /\ IdleMatrix

\* return iter.ErrorCode();
QmrResultZero(it) == 0
QmrResult(it) == IterErrorCode(it)

QmrStep(q) ==
    /\ qmr' = q
    /\ UNCHANGED <<driverVars, matrixVars>>

\* const int N = A.GetM(); if (N <= 0) return 0;  and the initial values
\* of the scalars.
QmrEnter ==
    /\ qmr.pc = "enter"
    /\ QmrStep(IF qmr.N <= 0
                 THEN [qmr EXCEPT !.pc = "done", !.ended = "empty", !.status = 0]
                 ELSE [qmr EXCEPT !.pc = "Init"])

\* A use of the matrix A: iter.MltAdd(-one, A, x, one, r), iter.Mlt(A, p,
\* p_tld) or M.Solve(A, v, y).
QmrTouchTwice(q, how) == [q EXCEPT !.trace = Append(Append(@, how), how)]
QmrTouch(q, how) == [q EXCEPT !.trace = Append(@, how)]

\* int success_init = iter.Init(b); if (success_init != 0) return
\* iter.ErrorCode();
QmrInit ==
    /\ qmr.pc = "Init"
    /\ \E ok \in BOOLEAN :
         LET it == IterInit(qmr.iter, ok)
         IN QmrStep(IF ok
                      THEN [qmr EXCEPT !.iter = it, !.pc = "residual"]
                      ELSE [qmr EXCEPT !.iter = it, !.pc = "done",
                                       !.ended = "init",
                                       !.status = QmrResult(it)])

\* r = b - Ax, or x = 0; v = r; M.Solve(A, v, y); rho = Norm2(y);
\* iter.SetNumberIteration(0);
QmrResidual ==
    /\ qmr.pc = "residual"
    /\ \E rho \in Scalars :
         QmrStep([QmrTouch(IF qmr.guessNull THEN qmr
                                             ELSE QmrTouch(qmr, "MltAdd"),
                           "Solve") EXCEPT
                    !.r = IF qmr.guessNull THEN <<>> ELSE <<0>>,
                    !.x = IF qmr.guessNull THEN <<>> ELSE qmr.x,
                    !.rho = rho,
                    !.iter = IterSetNumberIteration(@, 0),
                    !.pc = "Finished"])

\* while (! iter.Finished(r))
QmrLoopTest ==
    /\ qmr.pc = "Finished"
    /\ \E small \in BOOLEAN :
         LET it == IterTested(qmr.iter, small)
         IN QmrStep(IF IterFinished(it)
                      THEN [qmr EXCEPT !.iter = it, !.pc = "return",
                               !.ended = IF small THEN "converged" ELSE "limit"]
                      ELSE [qmr EXCEPT !.iter = it, !.pc = "rho"])

\* if (rho == 0) break; v = v / rho; y = y / rho; delta = DotProd(v, y);
QmrNormalize ==
    /\ qmr.pc = "rho"
    /\ IF IsZero(qmr.rho)
         THEN QmrStep(QmrBreak(qmr, "rho"))
         ELSE \E delta \in Scalars :
                QmrStep([Divided(qmr, "rho", qmr.rho) EXCEPT
                           !.delta = delta, !.pc = "delta"])

\* if (delta == zero) break; p = y, or p = y - (rho delta / ep) p;
\* p_tld = A*p; ep = DotProd(p, p_tld);
QmrDirection ==
    /\ qmr.pc = "delta"
    /\ IF IsZero(qmr.delta)
         THEN QmrStep(QmrBreak(qmr, "delta"))
         ELSE \E ep \in Scalars :
                QmrStep([QmrTouch(IF IterFirst(qmr.iter)
                                    THEN qmr ELSE Divided(qmr, "ep", qmr.ep),
                                  "Mlt") EXCEPT
                           !.ep = ep, !.pc = "ep"])

\* if (ep == zero) break; beta = ep / delta;
QmrPivot ==
    /\ qmr.pc = "ep"
    /\ IF IsZero(qmr.ep)
         THEN QmrStep(QmrBreak(qmr, "ep"))
         ELSE \E beta \in Scalars :
                QmrStep([Divided(qmr, "delta", qmr.delta) EXCEPT
                           !.beta = beta, !.pc = "beta"])

\* if (beta == zero) break; v = -beta v + p_tld; M.Solve(A, v, y);
\* rho_1 = rho; rho = Norm2(y); theta = rho / (gamma_1 * beta);
\* gamma = one / sqrt(one + theta * theta);
QmrLanczos ==
    /\ qmr.pc = "beta"
    /\ IF IsZero(qmr.beta)
         THEN QmrStep(QmrBreak(qmr, "beta"))
         ELSE \E rho \in Scalars, gamma \in Scalars :
                QmrStep([QmrTouch(Divided(Divided(qmr, "gamma", qmr.gamma),
                                          "beta", qmr.beta),
                                  "Solve") EXCEPT
                           !.rho = rho,
                           !.theta = rho,
                           !.gamma = gamma,
                           !.gamma_1 = qmr.gamma,
                           !.rho_1 = qmr.rho,
                           !.pc = "gamma"])

\* ++iter;
QmrNoAdvance(it) == it
QmrAdvance(it) == IterAdvance(it)

\* if (gamma == 0) break; eta = -eta rho_1 gamma^2 / (beta gamma_1^2);
\* d and s updated; x = x + d; r = r - s; ++iter;
QmrUpdate ==
    /\ qmr.pc = "gamma"
    /\ IF IsZero(qmr.gamma)
         THEN QmrStep(QmrBreak(qmr, "gamma"))
         ELSE QmrStep([QmrApply(Divided(Divided(qmr, "gamma", qmr.gamma_1),
                                        "beta", qmr.beta),
                                qmr.iter.nb_iter + 1) EXCEPT
                         !.iter = QmrAdvance(@),
                         !.pc = "Finished"])

\* The return after the loop.
QmrReturn ==
    /\ qmr.pc = "return"
    /\ QmrStep([qmr EXCEPT !.status = QmrResult(qmr.iter), !.pc = "done"])

NextQmr ==
    \/ QmrEnter
    \/ QmrInit
    \/ QmrResidual
    \/ QmrLoopTest
    \/ QmrNormalize
    \/ QmrDirection
    \/ QmrPivot
    \/ QmrLanczos
    \/ QmrUpdate
    \/ QmrReturn

SpecQmr == InitQmr /\ [][NextQmr]_vars

\* A call of QmrSym runs to its return: no step of it waits for anything.
SpecQmrFair == SpecQmr /\ WF_vars(NextQmr)

(***************************************************************************)
(*                      PROPERTIES OF THE DRIVER                           *)
(***************************************************************************)

\* The calls that may follow a call of the driver in a run of main.
Follows(c) ==
    CASE c = "Initialize"     -> {"InitializeStep", "Finalize"}
      [] c = "InitializeStep" -> {"Forward"}
      [] c = "Forward"        -> {"Analyze"}
      [] c = "Analyze"        -> {"FinalizeStep"}
      [] c = "FinalizeStep"   -> {"InitializeStep", "Finalize"}
      [] c = "Finalize"       -> {}

Count(c) == Cardinality({k \in DOMAIN trace : trace[k] = c})

\* C1: the driver's operations are called in the order Initialize, then
\* whole cycles InitializeStep, Forward, Analyze, FinalizeStep, then
\* Finalize: the first call is Initialize, every later call is one that may
\* follow its predecessor (nothing follows Finalize), and a run that returns
\* normally made whole cycles only and ended with Finalize.
C1_CallOrder ==
    /\ trace # <<>> => trace[1] = "Initialize"
    /\ \A k \in 2..Len(trace) : trace[k] \in Follows(trace[k - 1])
    /\ pc = "return0" =>
         /\ trace # <<>>
         /\ Last(trace) = "Finalize"
         /\ Len(trace) = 2 + 4 * Count("FinalizeStep")

\* A normal run of two cycles or more has returned.
C1_Witness ==
    /\ pc = "return0"
    /\ Count("Analyze") >= 2
    /\ Last(trace) = "Finalize"

\* C2: HasFinished is false while time steps remain and true once the horizon
\* is reached, so that main starts a cycle only when a step remains, has made
\* exactly one cycle per time step when it leaves the loop, never calls
\* Analyze for a step past the horizon, and, once HasFinished is true, goes
\* on to Finalize and returns.
C2_OneCyclePerStep ==
    /\ [](pc = "InitializeStep" => step < horizon)
    /\ [](step <= horizon /\ Count("InitializeStep") = step)
    /\ [](Count("Analyze") <= horizon)
    /\ [](pc \in {"Finalize", "return0"} =>
             step = horizon /\ Count("FinalizeStep") = horizon)
    /\ ((pc = "HasFinished" /\ DriverHasFinished) ~> (pc = "return0"))

\* The loop was left after as many cycles as the horizon has steps.
C2_Witness ==
    /\ pc = "return0"
    /\ horizon >= 2
    /\ Count("FinalizeStep") = horizon

\* C3: with a number of command-line arguments other than two, main calls no
\* operation of the driver and returns 1.
C3_UsageError ==
    argc # 2 =>
        /\ trace = <<>>
        /\ pc \in {"argcheck", "return1"}
        /\ pc = "return1" => exitCode = 1

\* main has returned 1 on too many arguments without touching the driver.
C3_Witness ==
    /\ argc > 2
    /\ pc = "return1"
    /\ exitCode = 1
    /\ trace = <<>>

\* C4: when the solve inside Analyze does not converge, the failure is
\* reported with the time index of the cycle and the exception leaves the
\* cycle: Analyze is the last call made, and nothing follows it.
C4_AnalyzeFailureAborts ==
    report # <<>> =>
        /\ Len(report) = 1
        /\ report[1].code # 0
        /\ report[1].time = step
        /\ pc = "caught"
        /\ Last(trace) = "Analyze"
        /\ Count("Analyze") = step
        /\ Count("FinalizeStep") = step - 1

\* The solve failed in the second cycle, after a whole first one.
C4_Witness ==
    /\ report # <<>>
    /\ report[1].time = 2
    /\ pc = "caught"
    /\ Count("FinalizeStep") = 1

(***************************************************************************)
(*                   PROPERTIES OF THE MATRIX CLASSES                      *)
(***************************************************************************)

\* The object is empty: no rows, no columns, no buffer, no row pointers.
IsEmpty(M) == M.m = 0 /\ M.n = 0 /\ M.data = 0 /\ M.me = 0

OutOfBounds == {"read out of bounds", "write out of bounds"}

\* C5: a packed-Hermitian or triangular matrix is square whatever the column
\* argument j of the calls was: after the constructor and after any sequence
\* of Reallocate, SetData, Clear, Nullify, Resize, Fill and Read, m_ = n_.
C5_Square == mat.m = mat.n

\* A call was given a column count that differs from its row count.
C5_Witness ==
    /\ op.name \in {"Construct", "Reallocate", "SetData", "Resize"}
    /\ mat.m = 2
    /\ mat.m \notin Js
    /\ mat.n = 2

\* C6: when the allocation of the buffer fails in the constructor of a matrix
\* of i > 0 rows, the constructor raises NoMemory and leaves the matrix empty.
C6_ConstructFailureRaises ==
    (op.name = "Construct" /\ op.failed) =>
        /\ err = "NoMemory"
        /\ IsEmpty(mat)

\* C7: when an allocation fails in Reallocate(i, j) with i other than the
\* current number of rows, Reallocate raises NoMemory and leaves the matrix
\* empty: no rows, no columns, null data pointer, null row-pointer table.
C7_ReallocateFailure ==
    (op.name = "Reallocate" /\ op.failed) =>
        /\ err = "NoMemory"
        /\ IsEmpty(mat)

\* Reallocate failed on a matrix that had two rows.
C7_Witness ==
    /\ op.name = "Reallocate"
    /\ op.failed
    /\ op.mold = 2
    /\ err = "NoMemory"
    /\ IsEmpty(mat)

\* C8: Reallocate never leaks: after the constructor, Reallocate and Clear no
\* block is left allocated that neither the matrix nor its caller points to.
C8_NoLeak ==
    op.name \in {"Construct", "Reallocate", "Clear"} => lost = {}

\* C9: Reallocate(i, j) with i equal to the current number of rows changes
\* nothing, whatever j is: dimensions, data pointer, row-pointer table and
\* stored elements are as before, and no exception is raised.
C9_ReallocateSameSize ==
    [][(op'.name = "Reallocate" /\ op'.same) =>
          /\ mat' = mat
          /\ heap' = heap
          /\ err' = "none"
          /\ ub' = ub]_vars

\* Reallocate was called with the size of a filled 2 x 2 matrix, which still
\* holds what Fill stored.
C9_Witness ==
    /\ op.name = "Reallocate"
    /\ op.same
    /\ mat.m = 2
    /\ mat.m \notin Js
    /\ mat.data # 0
    /\ \A k \in 1..GetDataSize(mat) : heap[mat.data].cells[k] = k - 1

\* C10: after Resize(i, j) of a triangular matrix of i_old rows every element
\* (r, c) with r, c < min(i, i_old) reads what it read before, growing or
\* shrinking, and Resize reads and writes inside the old and new buffers only.
C10_TriResizeKeepsOverlap ==
    [][(op'.name = "Resize" /\ ~IsHerm(mat.storage) /\ err' = "none") =>
          /\ mat'.m = IF op'.same THEN mat.m ELSE mat'.n
          /\ \A r, c \in 0..(Min(mat.m, mat'.m) - 1) :
                /\ TriAt(mat', heap', r, c) = TriAt(mat, heap, r, c)
                /\ TriGet(mat', heap', r, c) = TriGet(mat, heap, r, c)
          /\ ub' \cap OutOfBounds = {}]_vars

\* A filled 2 x 2 triangular matrix has grown to 3 x 3 and kept its entries.
C10_Witness ==
    /\ op.name = "Resize"
    /\ ~IsHerm(mat.storage)
    /\ err = "none"
    /\ ub = {}
    /\ op.mold = 2
    /\ mat.m = 3
    /\ TriAt(mat, heap, 0, 0) = 0
    /\ TriAt(mat, heap, 1, 1) = 3

\* A filled 3 x 3 triangular matrix has shrunk to 2 x 2 and kept its entries.
C10_WitnessShrink ==
    /\ op.name = "Resize"
    /\ ~IsHerm(mat.storage)
    /\ err = "none"
    /\ ub = {}
    /\ op.mold = 3
    /\ mat.m = 2
    /\ TriAt(mat, heap, 1, 1) = 4

\* C11: after Resize(i, j) of a packed Hermitian matrix of i_old rows, stored
\* by columns or by rows, every element (r, c) with r, c < min(i, i_old)
\* reads what it read before, and Resize reads and writes inside the old and
\* new packed buffers only.
C11_HermResizeKeepsOverlap ==
    [][(op'.name = "Resize" /\ IsHerm(mat.storage) /\ err' = "none") =>
          /\ \A r, c \in 0..(Min(mat.m, mat'.m) - 1) :
                HermAt(mat', heap', r, c) = HermAt(mat, heap, r, c)
          /\ ub' \cap OutOfBounds = {}]_vars

\* A filled 2 x 2 packed matrix stored by rows has grown to 3 x 3: its entry
\* (1, 1), the third scalar before, is the fourth scalar now.
C11_Witness ==
    /\ op.name = "Resize"
    /\ mat.storage = "RowHermPacked"
    /\ err = "none"
    /\ ub = {}
    /\ op.mold = 2
    /\ mat.m = 3
    /\ HermAt(mat, heap, 0, 1) = 1
    /\ HermAt(mat, heap, 1, 1) = 2
    /\ heap[mat.data].cells[4] = 2

\* C12: a matrix constructed with dimensions (i, i) reports the data size of
\* its layout, i * i for a triangular matrix and i * (i + 1) / 2 for a
\* packed one, and that is the number of scalars allocated for its buffer.
C12_DataSizeIsAllocated ==
    (op.name = "Construct" /\ ~op.failed) =>
        LET expected == IF IsHerm(mat.storage)
                          THEN (mat.m * (mat.m + 1)) \div 2
                          ELSE mat.m * mat.m
        IN /\ GetDataSize(mat) = expected
           /\ Len(Cells(heap, mat.data)) = expected

\* A packed matrix of three rows has been constructed over six scalars.
C12_Witness ==
    /\ op.name = "Construct"
    /\ ~op.failed
    /\ IsHerm(mat.storage)
    /\ mat.m = 3
    /\ GetDataSize(mat) = 6
    /\ Len(Cells(heap, mat.data)) = 6

\* The scalars the matrix stores, in the order of the memory.
Stored(M, H) == SubSeq(Cells(H, M.data), 1, GetDataSize(M))

\* The stream holds all the scalars its header announces.
FileComplete == Len(file.payload) = BufferSize(mat.storage, file.m)

C15_NullifyKeepsBuffer ==
    [][/\ (op'.name = "Nullify" /\ mat.data # 0 /\ mat.data \in user) =>
             /\ IsEmpty(mat')
             /\ heap[mat.data].st = "live"
             /\ heap'[mat.data] = heap[mat.data]
             /\ mat.data \in user'
       /\ op'.name = "Clear" =>
             \A b \in user \ {mat.data} :
                 /\ heap'[b] = heap[b]
                 /\ b \in user']_vars

\* The matrix was given a buffer, nullified and then cleared: the buffer is
\* still allocated and holds what the caller had put in it.
C15_Witness ==
    /\ op.name = "Clear"
    /\ IsEmpty(mat)
    /\ \E b \in user :
          /\ heap[b].st = "live"
          /\ Len(heap[b].cells) > 0
          /\ \A k \in 1..Len(heap[b].cells) : heap[b].cells[k] = k - 1

\* C16: at no time do two matrix objects both hold the same allocated buffer
\* as their data (each would release it), and no buffer is released twice.
C16_ExclusiveOwnership ==
    /\ ~(/\ mat.alive /\ other.alive
          /\ mat.data # 0
          /\ mat.data = other.data
          /\ heap[mat.data].st = "live")
    /\ "double free" \notin ub

\* C17: a matrix with no rows has a null data pointer, after every operation.
C17_EmptyOwnsNothing ==
    (mat.alive /\ mat.m = 0) => mat.data = 0

\* The names under which the function `name' of the class of a matrix with
\* storage st identifies itself.
ClassName(st) == IF IsHerm(st) THEN "Matrix_HermPacked" ELSE "Matrix_Triangular"
OwnFunctions(st, name) ==
    {ClassName(st) \o "::" \o name \o "(" \o a \o ")" :
        a \in {"string FileName", "ofstream& FileStream", "ifstream& FileStream"}}

\* C18: an IOError that leaves Write, WriteText, Read or ReadText called with
\* a file name names that function of the matrix's class and that file.
C18_IOErrorNamesCallAndFile ==
    (/\ err = "IOError"
     /\ "path" \in DOMAIN op
     /\ op.path # "") =>
        /\ msg.function \in OwnFunctions(mat.storage, op.name)
        /\ msg.path = op.path

\* C19: when Read or ReadText ends with an IOError, the matrix has the
\* dimensions and the stored scalars it had before the call.
C19_FailedReadKeepsState ==
    [][(op'.name \in {"Read", "ReadText"} /\ err' = "IOError") =>
          /\ mat'.m = mat.m
          /\ mat'.n = mat.n
          /\ Cells(heap', mat'.data) = Cells(heap, mat.data)]_vars

\* C20: ReadText on a ready stream whose text has a line, after the first,
\* with another number of scalars than the first line ends with an IOError
\* (no line of the text being empty).
C20_RaggedTextRejected ==
    (/\ op.name = "ReadText"
     /\ ub = {}
     /\ msg.comment \notin {"Unable to open file", "Stream is not ready."}
     /\ \A l \in 1..Len(op.lens) : op.lens[l] > 0
     /\ \E l \in 2..Len(op.lens) : op.lens[l] # op.lens[1]) =>
        err = "IOError"

C22_BreakdownsDistinct ==
    /\ qmr.pc # "idle" => qmr.div = {}
    /\ (qmr.pc = "done" /\ qmr.ended = "breakdown") =>
          /\ qmr[qmr.pivot] = "zero"
          /\ qmr.status # 0
          /\ qmr.status = QmrFailure(qmr.pivot).code
          /\ qmr.iter.name = QmrFailure(qmr.pivot).name
          /\ \A p \in Pivots \ {qmr.pivot} :
                /\ qmr.status # QmrFailure(p).code
                /\ qmr.iter.name # QmrFailure(p).name

\* A run ended in its second iteration on a zero gamma, with code 6.
C22_Witness ==
    /\ qmr.pc = "done"
    /\ qmr.pivot = "gamma"
    /\ qmr.iter.nb_iter = 1
    /\ qmr.status = 6

\* The iterate after k completed iterations: the initial guess, or zero, and
\* the updates of iterations 1 to k; the residual likewise.
IterateAfter(q, k) == (IF q.guessNull THEN <<>> ELSE <<0>>) \o [i \in 1..k |-> i]

\* C23: the step that detects a breakdown leaves x and r untouched and ends
\* the loop; the call then returns a nonzero status with x and r as the last
\* completed iteration left them.
C23_BreakdownKeepsIterate ==
    [][/\ (qmr'.pc = "return" /\ qmr'.ended = "breakdown") =>
             /\ qmr'.x = qmr.x
             /\ qmr'.r = qmr.r
             /\ qmr'.iter.nb_iter = qmr.iter.nb_iter
       /\ (qmr'.pc = "done" /\ qmr'.ended = "breakdown") =>
             /\ qmr'.status # 0
             /\ qmr'.x = IterateAfter(qmr', qmr'.iter.nb_iter)
             /\ qmr'.r = IterateAfter(qmr', qmr'.iter.nb_iter)]_vars

\* A run with an initial guess completed two iterations, met a zero ep in the
\* third and returned the second iterate.
C23_Witness ==
    /\ qmr.pc = "done"
    /\ qmr.pivot = "ep"
    /\ ~qmr.guessNull
    /\ qmr.x = <<0, 1, 2>>
    /\ qmr.r = <<0, 1, 2>>
    /\ qmr.status = 4

\* The positions of a pass through the loop body, in order.
LoopBody == {"rho", "delta", "ep", "beta", "gamma"}

\* C24: every call returns. A step of the loop body moves on within the pass,
\* leaves the loop through a breakdown, or ends the pass with the counter
\* advanced by one; the counter never exceeds the cap, and the loop is left
\* by convergence, by a breakdown or at the cap.
C24_QmrTerminates ==
    /\ [][/\ qmr.pc \in LoopBody =>
               \/ /\ qmr'.pc \in LoopBody
                  /\ qmr'.iter.nb_iter = qmr.iter.nb_iter
               \/ /\ qmr'.pc = "return"
                  /\ qmr'.ended = "breakdown"
               \/ /\ qmr'.pc = "Finished"
                  /\ qmr'.iter.nb_iter = qmr.iter.nb_iter + 1
          /\ qmr'.iter.nb_iter <= qmr'.iter.max_iter
          /\ qmr'.pc = "return" =>
               qmr'.ended \in {"converged", "breakdown", "limit"}]_vars
    /\ <>(qmr.pc = "done")

\* A call that ran up to the cap of three iterations and returned.
C24_Witness ==
    /\ qmr.pc = "done"
    /\ qmr.ended = "limit"
    /\ qmr.iter.nb_iter = MaxIter
    /\ qmr.iter.max_iter = MaxIter

\* C26: WriteText prints one line per row with an entry for every column,
\* mirrored and non-stored entries included, and ReadText of that text leaves
\* a matrix of the same size whose stored triangle holds the same values.
C26_TextRoundTrip ==
    [][/\ (op'.name = "WriteText" /\ err' = "none") =>
             /\ Len(file'.lines) = mat.m
             /\ \A i \in 0..(mat.m - 1) :
                   /\ Len(file'.lines[i + 1]) = mat.n
                   /\ \A j \in 0..(mat.n - 1) :
                         file'.lines[i + 1][j + 1] = Entry(mat, heap, i, j)
       /\ op'.name = "ReadTextBack" =>
             /\ err' = "none"
             /\ ub' = {}
             /\ mat'.m = mat.m
             /\ mat'.n = mat.n
             /\ \A i \in 0..(mat.m - 1), j \in 0..(mat.n - 1) :
                   (IsUpper(mat.storage) <=> i <= j) \/ i = j =>
                       /\ Entry(mat', heap', i, j) = file.lines[i + 1][j + 1]
                       /\ Entry(mat', heap', i, j) = Entry(mat, heap, i, j)]_vars

\* A filled lower triangular matrix of order three was written and read back.
C26_Witness ==
    /\ op.name = "ReadTextBack"
    /\ mat.storage = "RowLoTriang"
    /\ mat.m = MaxDim
    /\ Entry(mat, heap, MaxDim - 1, 1) # Uninit
    /\ Entry(mat, heap, MaxDim - 1, 1) # 0
    /\ Entry(mat, heap, MaxDim - 1, 1) = file.lines[MaxDim][2]

\* C27: ReadText writes only elements of the matrix it has just allocated and
\* reads only values the text holds, and computes the row count without
\* dividing by zero, whatever the lengths of the lines of the text.
C27_ReadTextInBounds ==
    op.name = "ReadText" => ub = {}

\* C28: the binary Read of a triangular matrix stores no scalar past the end
\* of the buffer that its Reallocate(new_m, new_n) has allocated, whatever
\* the two integers of the header.
C28_TriReadFitsBuffer ==
    (op.name = "Read" /\ ~IsHerm(mat.storage) /\ ~op.failed) =>
        "write out of bounds" \notin ub

\* The uses of A before the loop, and those of k completed iterations.
Prelude(q) == (IF q.guessNull THEN <<>> ELSE <<"MltAdd">>) \o <<"Solve">>
Passes(k) == [i \in 1..(2 * k) |-> IF i % 2 = 1 THEN "Mlt" ELSE "Solve"]
\* The uses of A of the pass under way at position pc, or of the pass that a
\* zero pivot ended.
Partial(at) ==
    CASE at \in {"ep", "beta"} -> <<"Mlt">>
      [] at = "gamma" -> <<"Mlt", "Solve">>
      [] OTHER -> <<>>

\* C29: the matrix is used through products and Solve only, in a fixed order:
\* the residual product when there is an initial guess, one Solve before the
\* loop, then one product followed by one Solve in each iteration; the
\* counter is the number of iterations that ran to their end, a pass ended
\* by a zero pivot not being counted.
C29_FixedOrderOfUses ==
    qmr.pc \notin {"idle", "enter", "Init", "residual"}
      /\ qmr.ended \notin {"empty", "init"} =>
        qmr.trace = Prelude(qmr) \o Passes(qmr.iter.nb_iter)
                    \o Partial(IF qmr.ended = "breakdown" THEN qmr.pivot
                                                         ELSE qmr.pc)

\* Two iterations ran to their end and a third one was ended by a zero beta,
\* after its product and before its Solve.
C29_Witness ==
    /\ qmr.pc = "done"
    /\ qmr.pivot = "beta"
    /\ qmr.iter.nb_iter = 2
    /\ Len(qmr.trace) = Len(Prelude(qmr)) + 5

=============================================================================
